---- MODULE Spec2Model ----
(***************************************************************************)
(* State-machine model of evaluators.py: the Evaluator family              *)
(* (MWEvaluator, FPEvaluator, ROCSEvaluator, LookupEvaluator,              *)
(* FredEvaluator) together with the module-level helpers generate_confs    *)
(* and read_design_unit.  The OpenEye / RDKit toolkits are external: each  *)
(* toolkit call is modelled by the outcomes it can hand back to this code  *)
(* (a status, a score, a return code, or a raised error).                  *)
(*                                                                         *)
(* Floating-point scores are written as integers: -1 is -1.0, 1000 is      *)
(* 1000.0, and so on.  Python's None / "a value" distinction is kept by    *)
(* writing an optional value as a sequence: <<>> is None, <<v>> is v.      *)
(***************************************************************************)
EXTENDS Integers, Sequences, FiniteSets, TLC

VARIABLES objs, oe_level, calls, first_score, ref_df, last, thr, level0

vars == <<objs, oe_level, calls, first_score, ref_df, last, thr, level0>>

(***************************************************************************)
(* Bounds of the model.                                                    *)
(***************************************************************************)
\* evaluate calls explored per instance
MaxEvals == 3
\* rows of the table file read by LookupEvaluator
MaxRows == 2
\* evaluate calls explored on a pair of instances, both together
MaxPairEvals == 2

\* the evaluator instance a driver holds
Inst == {"e1"}

\* the evaluator instances of a driver that holds two at a time
Pair == {"e1", "e2"}

\* the threads of a driver that shares one instance between two workers
Threads == {"t1", "t2"}

(***************************************************************************)
(* Inputs.                                                                 *)
(***************************************************************************)
\* molecules, named by the SMILES they were written as
Mols == {"CCO", "OCC", "CC"}

\* what a path handed to a constructor can denote
PathKinds == {"file", "missing", "dir", "unreadable"}

\* values of the val column of a lookup table
TableVals == {5, 7}

\* budgets handed to set_max_confs
MaxConfsInputs == {10, 50}

\* toolkit logging levels (oechem.OEErrorLevel_*)
OEErrorLevel_Error == "Error"
OELevels == {"Info", "Warning", OEErrorLevel_Error}

\* what omega(mol) can do: succeed, report failure, or raise
OmegaOutcomes == {"ok", "fail", "raise"}

\* Tanimoto Combo scores the overlay can report (nominal range [0,2])
OverlayScores == {0, 1, 2}

\* docking return codes and the scores a docked pose can carry
OEDockingReturnCode_Success == "Success"
OEDockingReturnCode_ConformerGenError == "ConformerGenError"
DockReturnCodes == {OEDockingReturnCode_Success, "Failed"}
DockScores == {-8, 0}

(***************************************************************************)
(* Program constants.                                                      *)
(***************************************************************************)
DefaultMaxConfs == 50
ConfFailScore == -1
DockFallbackScore == 1000

(***************************************************************************)
(* Pure helpers.                                                           *)
(***************************************************************************)
\* Chem.MolToSmiles: the canonical SMILES of a molecule, whatever way it
\* was written
MolToSmiles(mol) ==
    CASE mol = "CCO" -> "CCO"
      [] mol = "OCC" -> "CCO"
      [] mol = "CC"  -> "CC"

\* a lookup under the molecule object instead of its SMILES: never found
dict_get_by_object(d, k) == <<>>

\* dict.get(key): the value, or None
dict_get(d, k) == IF k \in DOMAIN d THEN <<d[k]>> ELSE <<>>

\* d[key] = value
dict_set(d, k, v) == [x \in DOMAIN d \cup {k} |-> IF x = k THEN v ELSE d[x]]

\* dict(pairs): later pairs replace earlier ones with the same key
RECURSIVE dict_of(_)
dict_of(rows) ==
    IF rows = <<>> THEN <<>>
    ELSE LET n == Len(rows)
         IN  dict_set(dict_of(SubSeq(rows, 1, n - 1)), rows[n][1], rows[n][2])

\* a truthiness test in place of "is not None": a cached 0.0 reads as a miss
is_truthy(x) == x # <<>> /\ x[1] # 0

\* the "is not None" test of the cache lookup
is_not_None(x) == x # <<>>

\* a lookup with a default, d.get(key, 0): a miss hands back 0
dict_get_default(d, k) ==
    IF k \in DOMAIN d THEN [raised |-> FALSE, val |-> <<d[k]>>]
                      ELSE [raised |-> FALSE, val |-> <<0>>]

\* d[key]: the value, or KeyError
dict_getitem(d, k) ==
    IF k \in DOMAIN d THEN [raised |-> FALSE, val |-> <<d[k]>>]
                      ELSE [raised |-> TRUE, val |-> <<>>]

\* "=+ 1" in place of "+= 1": the counter is set to 1
Incremented_assign(obj) == [obj EXCEPT !.num_evaluations = 1]

\* self.num_evaluations += 1
Incremented(obj) == [obj EXCEPT !.num_evaluations = @ + 1]

\* a store that leaves failures out of the cache
cache_store_skip_failure(score_cache, smi, tc) ==
    IF tc = -1 THEN score_cache ELSE dict_set(score_cache, smi, tc)

\* self.score_cache[smi] = tc
cache_store(score_cache, smi, tc) == dict_set(score_cache, smi, tc)

\* os.path.exists in place of os.path.isfile: a directory passes
os_path_exists(path) == path \in {"file", "unreadable", "dir"}

\* os.path.isfile: true of an existing regular file only
os_path_isfile(path) == path \in {"file", "unreadable"}

\* uru.MolWt, in whole mass units
MolWt(mol) == IF MolToSmiles(mol) = "CCO" THEN 46 ELSE 30

\* Morgan fingerprint as the set of atom environments of the structure
morgan_fp(mol) ==
    IF MolToSmiles(mol) = "CCO" THEN {"C", "CC", "CO", "O"} ELSE {"C", "CC"}

\* DataStructs.TanimotoSimilarity, in hundredths
TanimotoSimilarity(a, b) ==
    (100 * Cardinality(a \cap b)) \div Cardinality(a \cup b)

\* generate_confs: the level is saved, set to Error, omega runs, and the
\* saved level is put back by the statement after the omega call
generate_confs(max_confs, level, omega) ==
    LET error_level == level
        suppressed  == OEErrorLevel_Error
    IN  IF omega = "raise"
        THEN [raised |-> TRUE, status |-> FALSE, level |-> suppressed,
              max_confs |-> max_confs]
        ELSE [raised |-> FALSE, status |-> (omega = "ok"), level |-> error_level,
              max_confs |-> max_confs]

(***************************************************************************)
(* State.                                                                  *)
(***************************************************************************)
\* a name not yet bound to an instance, and a name whose constructor raised
\* (no instance came back, so no method can be called on it)
NoObject == [class |-> "None"]
Raised == [class |-> "Raised"]

NoCalls == [evaluate |-> 0, generate_confs |-> 0, overlay |-> 0,
            dock |-> 0, read_design_unit |-> 0, raised |-> 0]

\* what the caller of the last operation saw: the call, what came back
\* (ret, or the error in exc), and what the toolkit was asked and answered
Call(self, cls, op, arg, ret, exc) ==
    [self |-> self, cls |-> cls, op |-> op, arg |-> arg, ret |-> ret, exc |-> exc,
     confs |-> "", max_confs |-> 0, ret_code |-> ""]

\* a worker thread: where it stands in evaluate / generate_confs and the
\* locals of its frames
NoThread == [pc |-> "none", mol |-> "", tmp |-> 0, arc_tc |-> <<>>,
             error_level |-> "", status |-> FALSE, tc |-> <<>>,
             generated |-> FALSE, stored |-> FALSE, exc |-> ""]

Bump(self, names) ==
    [calls EXCEPT ![self] =
        [f \in DOMAIN calls[self] |->
            IF f \in names THEN calls[self][f] + 1 ELSE calls[self][f]]]

Init ==
    /\ objs = [i \in Inst |-> NoObject]
    /\ oe_level \in OELevels
    /\ calls = [i \in Inst |-> NoCalls]
    /\ first_score = [i \in Inst |-> <<>>]
    /\ ref_df = [i \in Inst |-> <<>>]
    /\ last = Call("", "", "", "", <<>>, "")
    /\ thr = [t \in Threads |-> NoThread]
    /\ level0 = oe_level

(***************************************************************************)
(* MWEvaluator                                                             *)
(***************************************************************************)
MWEvaluator_init(self) ==
    /\ objs[self] = NoObject
    /\ objs' = [objs EXCEPT ![self] =
                  [class |-> "MWEvaluator", num_evaluations |-> 0]]
    /\ last' = Call(self, "MWEvaluator", "__init__", "", <<>>, "")
    /\ UNCHANGED <<oe_level, calls, first_score, ref_df>>

MWEvaluator_evaluate(self) ==
    /\ objs[self].class = "MWEvaluator"
    /\ objs[self].num_evaluations < MaxEvals
    /\ \E mol \in Mols :
         /\ objs' = [objs EXCEPT ![self] = Incremented(@)]
         /\ last' = Call(self, "MWEvaluator", "evaluate", mol, <<MolWt(mol)>>, "")
    /\ calls' = Bump(self, {"evaluate"})
    /\ UNCHANGED <<oe_level, first_score, ref_df>>

(***************************************************************************)
(* FPEvaluator                                                             *)
(***************************************************************************)
FPEvaluator_init(self) ==
    /\ objs[self] = NoObject
    /\ \E query_smiles \in Mols :
         /\ objs' = [objs EXCEPT ![self] =
                       [class |-> "FPEvaluator",
                        ref_smiles |-> query_smiles,
                        ref_fp |-> morgan_fp(query_smiles),
                        num_evaluations |-> 0]]
         /\ last' = Call(self, "FPEvaluator", "__init__", query_smiles, <<>>, "")
    /\ UNCHANGED <<oe_level, calls, first_score, ref_df>>

FPEvaluator_evaluate(self) ==
    /\ objs[self].class = "FPEvaluator"
    /\ objs[self].num_evaluations < MaxEvals
    /\ \E rd_mol_in \in Mols :
         LET rd_mol_fp == morgan_fp(rd_mol_in)
         IN  /\ objs' = [objs EXCEPT ![self] = Incremented(@)]
             /\ last' = Call(self, "FPEvaluator", "evaluate", rd_mol_in,
                             <<TanimotoSimilarity(objs[self].ref_fp, rd_mol_fp)>>, "")
    /\ calls' = Bump(self, {"evaluate"})
    /\ UNCHANGED <<oe_level, first_score, ref_df>>

(***************************************************************************)
(* ROCSEvaluator                                                           *)
(***************************************************************************)
\* oemolistream + OEReadMolecule: the stream constructor and the reader
\* report failure through their return values, which __init__ does not
\* look at, so a path that is not a readable structure file leaves the
\* freshly made OEMol empty
OEReadMolecule(path) ==
    [loaded |-> (path = "file"), prepped |-> FALSE]

ROCSEvaluator_init(self) ==
    /\ objs[self] = NoObject
    /\ \E ref_filename \in PathKinds :
         /\ objs' = [objs EXCEPT ![self] =
                       [class |-> "ROCSEvaluator",
                        ref_mol |-> OEReadMolecule(ref_filename),
                        max_confs |-> DefaultMaxConfs,
                        score_cache |-> <<>>,
                        num_evaluations |-> 0]]
         /\ last' = Call(self, "ROCSEvaluator", "__init__", ref_filename, <<>>, "")
    /\ UNCHANGED <<oe_level, calls, first_score, ref_df>>

\* an assignment to the class attribute: every ROCSEvaluator sees the budget
ROCSEvaluator_set_max_confs_class(self) ==
    /\ objs[self].class = "ROCSEvaluator"
    /\ \E max_confs \in MaxConfsInputs :
         /\ objs' = [i \in DOMAIN objs |->
                       IF objs[i].class = "ROCSEvaluator"
                       THEN [objs[i] EXCEPT !.max_confs = max_confs]
                       ELSE objs[i]]
         /\ last' = Call(self, "ROCSEvaluator", "set_max_confs", max_confs, <<>>, "")
    /\ UNCHANGED <<oe_level, calls, first_score, ref_df>>

\* an assignment to a misspelt attribute: the budget in use stays as it was
ROCSEvaluator_set_max_confs_typo(self) ==
    /\ objs[self].class = "ROCSEvaluator"
    /\ \E max_confs \in MaxConfsInputs :
         last' = Call(self, "ROCSEvaluator", "set_max_confs", max_confs, <<>>, "")
    /\ UNCHANGED <<objs, oe_level, calls, first_score, ref_df>>

\* a set_max_confs that also drops the scores computed under the old budget
ROCSEvaluator_set_max_confs_reset(self) ==
    /\ objs[self].class = "ROCSEvaluator"
    /\ \E max_confs \in MaxConfsInputs :
         /\ objs' = [objs EXCEPT ![self].max_confs = max_confs,
                                 ![self].score_cache = <<>>]
         /\ last' = Call(self, "ROCSEvaluator", "set_max_confs", max_confs, <<>>, "")
    /\ UNCHANGED <<oe_level, calls, first_score, ref_df>>

ROCSEvaluator_set_max_confs(self) ==
    /\ objs[self].class = "ROCSEvaluator"
    /\ \E max_confs \in MaxConfsInputs :
         /\ objs' = [objs EXCEPT ![self].max_confs = max_confs]
         /\ last' = Call(self, "ROCSEvaluator", "set_max_confs", max_confs, <<>>, "")
    /\ UNCHANGED <<oe_level, calls, first_score, ref_df>>

\* overlay: both molecules are prepared in place, then the best overlay of
\* the fit molecule onto the reference is scored
ROCSEvaluator_overlay(ref_mol, score) ==
    [ref_mol |-> [ref_mol EXCEPT !.prepped = TRUE], tc |-> score]

\* the first score evaluate handed back for a key, kept for comparison
Remember(self, smi, tc) ==
    IF smi \in DOMAIN first_score[self]
    THEN first_score
    ELSE [first_score EXCEPT ![self] = dict_set(@, smi, tc)]

ROCSEvaluator_evaluate(self) ==
    /\ objs[self].class = "ROCSEvaluator"
    /\ objs[self].num_evaluations < MaxEvals
    /\ \E rd_mol_in \in Mols, omega \in OmegaOutcomes, score \in OverlayScores :
         LET smi    == MolToSmiles(rd_mol_in)
             arc_tc == dict_get(objs[self].score_cache, smi)
             gc     == generate_confs(objs[self].max_confs, oe_level, omega)
             ov     == ROCSEvaluator_overlay(objs[self].ref_mol, score)
         IN  IF is_not_None(arc_tc)
             THEN \* cache hit
                  /\ objs' = [objs EXCEPT ![self] = Incremented(@)]
                  /\ last' = Call(self, "ROCSEvaluator", "evaluate", rd_mol_in, arc_tc, "")
                  /\ calls' = Bump(self, {"evaluate"})
                  /\ first_score' = Remember(self, smi, arc_tc[1])
                  /\ UNCHANGED <<oe_level, ref_df>>
             ELSE IF gc.raised
             THEN \* the error raised by omega leaves evaluate
                  /\ objs' = [objs EXCEPT ![self] = Incremented(@)]
                  /\ last' = [Call(self, "ROCSEvaluator", "evaluate", rd_mol_in, <<>>, "ToolkitError")
                                EXCEPT !.confs = omega, !.max_confs = gc.max_confs]
                  /\ calls' = Bump(self, {"evaluate", "generate_confs", "raised"})
                  /\ oe_level' = gc.level
                  /\ UNCHANGED <<first_score, ref_df>>
             ELSE IF gc.status
             THEN /\ objs' = [objs EXCEPT ![self] =
                                [Incremented(@) EXCEPT
                                   !.ref_mol = ov.ref_mol,
                                   !.score_cache = cache_store(@, smi, ov.tc)]]
                  /\ last' = [Call(self, "ROCSEvaluator", "evaluate", rd_mol_in, <<ov.tc>>, "")
                                EXCEPT !.confs = omega, !.max_confs = gc.max_confs]
                  /\ calls' = Bump(self, {"evaluate", "generate_confs", "overlay"})
                  /\ oe_level' = gc.level
                  /\ first_score' = Remember(self, smi, ov.tc)
                  /\ UNCHANGED ref_df
             ELSE /\ objs' = [objs EXCEPT ![self] =
                                [Incremented(@) EXCEPT
                                   !.score_cache = cache_store(@, smi, ConfFailScore)]]
                  /\ last' = [Call(self, "ROCSEvaluator", "evaluate", rd_mol_in, <<ConfFailScore>>, "")
                                EXCEPT !.confs = omega, !.max_confs = gc.max_confs]
                  /\ calls' = Bump(self, {"evaluate", "generate_confs"})
                  /\ oe_level' = gc.level
                  /\ first_score' = Remember(self, smi, ConfFailScore)
                  /\ UNCHANGED ref_df

(***************************************************************************)
(* LookupEvaluator                                                         *)
(***************************************************************************)
\* the tables a file can hold: rows (SMILES as written, val)
Tables == UNION {[1..n -> Mols \X TableVals] : n \in 0..MaxRows}

LookupEvaluator_init(self) ==
    /\ objs[self] = NoObject
    /\ \E ref_filename \in PathKinds, rows \in Tables :
         IF ref_filename = "file"
         THEN /\ objs' = [objs EXCEPT ![self] =
                            [class |-> "LookupEvaluator",
                             num_evaluations |-> 0,
                             ref_dict |-> dict_of(rows)]]
              /\ ref_df' = [ref_df EXCEPT ![self] = rows]
              /\ last' = Call(self, "LookupEvaluator", "__init__", ref_filename, <<>>, "")
         ELSE \* pd.read_csv raises; no instance comes back
              /\ last' = Call(self, "LookupEvaluator", "__init__", ref_filename, <<>>,
                              IF ref_filename = "missing" THEN "FileNotFoundError"
                              ELSE IF ref_filename = "dir" THEN "IsADirectoryError"
                              ELSE "ParserError")
              /\ objs' = [objs EXCEPT ![self] = Raised]
              /\ UNCHANGED ref_df
    /\ UNCHANGED <<oe_level, calls, first_score>>

LookupEvaluator_evaluate(self) ==
    /\ objs[self].class = "LookupEvaluator"
    /\ objs[self].num_evaluations < MaxEvals
    /\ \E mol \in Mols :
         LET smi == MolToSmiles(mol)
             got == dict_getitem(objs[self].ref_dict, smi)
         IN  /\ objs' = [objs EXCEPT ![self] = Incremented(@)]
             /\ last' = Call(self, "LookupEvaluator", "evaluate", mol, got.val,
                             IF got.raised THEN "KeyError" ELSE "")
    /\ calls' = Bump(self, {"evaluate"})
    /\ UNCHANGED <<oe_level, first_score, ref_df>>

(***************************************************************************)
(* FredEvaluator                                                           *)
(***************************************************************************)
\* read_design_unit: OEThrow.Fatal when the file cannot be opened or
\* parsed or holds no receptor, a docking engine otherwise
read_design_unit(filename) ==
    IF filename = "file"
    THEN [fatal |-> FALSE, dock |-> "OEDock"]
    ELSE [fatal |-> TRUE, dock |-> ""]

FredEvaluator_init(self) ==
    /\ objs[self] = NoObject
    /\ \E du_file \in PathKinds :
         IF ~ os_path_isfile(du_file)
         THEN /\ last' = Call(self, "FredEvaluator", "__init__", du_file, <<>>, "FileNotFoundError")
              /\ objs' = [objs EXCEPT ![self] = Raised]
              /\ UNCHANGED calls
         ELSE LET rdu == read_design_unit(du_file)
              IN  /\ calls' = Bump(self, {"read_design_unit"})
                  /\ IF rdu.fatal
                     THEN /\ last' = Call(self, "FredEvaluator", "__init__", du_file, <<>>, "Fatal")
                          /\ objs' = [objs EXCEPT ![self] = Raised]
                     ELSE /\ objs' = [objs EXCEPT ![self] =
                                        [class |-> "FredEvaluator",
                                         dock |-> rdu.dock,
                                         num_evaluations |-> 0,
                                         max_confs |-> DefaultMaxConfs]]
                          /\ last' = Call(self, "FredEvaluator", "__init__", du_file, <<>>, "")
    /\ UNCHANGED <<oe_level, first_score, ref_df>>

FredEvaluator_set_max_confs(self) ==
    /\ objs[self].class = "FredEvaluator"
    /\ \E max_confs \in MaxConfsInputs :
         /\ objs' = [objs EXCEPT ![self].max_confs = max_confs]
         /\ last' = Call(self, "FredEvaluator", "set_max_confs", max_confs, <<>>, "")
    /\ UNCHANGED <<oe_level, calls, first_score, ref_df>>

\* a test for the conformer-generation code only: other failures pass
FredEvaluator_score_conf_only(ret_code, sd_score) ==
    IF ret_code # OEDockingReturnCode_ConformerGenError THEN sd_score
    ELSE DockFallbackScore

\* the value evaluate returns: the fallback unless docking succeeded
FredEvaluator_score(ret_code, sd_score) ==
    IF ret_code = OEDockingReturnCode_Success THEN sd_score
    ELSE DockFallbackScore

\* an evaluate that hands back the score of the call before it when the
\* same structure is asked for twice in a row
FredEvaluator_evaluate_memo(self) ==
    /\ objs[self].class = "FredEvaluator"
    /\ objs[self].num_evaluations < MaxEvals
    /\ \E mol \in Mols, omega \in OmegaOutcomes,
          dock_code \in DockReturnCodes, sd_score \in DockScores :
         LET gc       == generate_confs(objs[self].max_confs, oe_level, omega)
             confs_ok == gc.status
             ret_code == IF confs_ok THEN dock_code
                         ELSE OEDockingReturnCode_ConformerGenError
             memo     == /\ last.op = "evaluate"
                         /\ last.exc = ""
                         /\ MolToSmiles(last.arg) = MolToSmiles(mol)
         IN  /\ objs' = [objs EXCEPT ![self] = Incremented(@)]
             /\ IF memo
                THEN /\ last' = Call(self, "FredEvaluator", "evaluate", mol, last.ret, "")
                     /\ calls' = Bump(self, {"evaluate"})
                     /\ UNCHANGED oe_level
                ELSE /\ oe_level' = gc.level
                     /\ IF gc.raised
                        THEN /\ last' = [Call(self, "FredEvaluator", "evaluate", mol, <<>>,
                                              "ToolkitError")
                                           EXCEPT !.confs = omega, !.max_confs = gc.max_confs]
                             /\ calls' = Bump(self, {"evaluate", "generate_confs", "raised"})
                        ELSE /\ last' = [Call(self, "FredEvaluator", "evaluate", mol,
                                              <<FredEvaluator_score(ret_code, sd_score)>>, "")
                                           EXCEPT !.confs = omega, !.max_confs = gc.max_confs,
                                                  !.ret_code = ret_code]
                             /\ calls' = Bump(self, IF confs_ok
                                                    THEN {"evaluate", "generate_confs", "dock"}
                                                    ELSE {"evaluate", "generate_confs"})
    /\ UNCHANGED <<first_score, ref_df>>

FredEvaluator_evaluate(self) ==
    /\ objs[self].class = "FredEvaluator"
    /\ objs[self].num_evaluations < MaxEvals
    /\ \E mol \in Mols, omega \in OmegaOutcomes,
          dock_code \in DockReturnCodes, sd_score \in DockScores :
         LET gc       == generate_confs(objs[self].max_confs, oe_level, omega)
             confs_ok == gc.status
             ret_code == IF confs_ok THEN dock_code
                         ELSE OEDockingReturnCode_ConformerGenError
         IN  /\ objs' = [objs EXCEPT ![self] = Incremented(@)]
             /\ oe_level' = gc.level
             /\ IF gc.raised
                THEN /\ last' = [Call(self, "FredEvaluator", "evaluate", mol, <<>>, "ToolkitError")
                                   EXCEPT !.confs = omega, !.max_confs = gc.max_confs]
                     /\ calls' = Bump(self, {"evaluate", "generate_confs", "raised"})
                ELSE /\ last' = [Call(self, "FredEvaluator", "evaluate", mol,
                                      <<FredEvaluator_score(ret_code, sd_score)>>, "")
                                   EXCEPT !.confs = omega, !.max_confs = gc.max_confs,
                                          !.ret_code = ret_code]
                     /\ calls' = Bump(self, IF confs_ok
                                            THEN {"evaluate", "generate_confs", "dock"}
                                            ELSE {"evaluate", "generate_confs"})
    /\ UNCHANGED <<first_score, ref_df>>

Next ==
    /\ \E self \in Inst :
        \/ MWEvaluator_init(self)
        \/ MWEvaluator_evaluate(self)
        \/ FPEvaluator_init(self)
        \/ FPEvaluator_evaluate(self)
        \/ ROCSEvaluator_init(self)
        \/ ROCSEvaluator_set_max_confs(self)
        \/ ROCSEvaluator_evaluate(self)
        \/ LookupEvaluator_init(self)
        \/ LookupEvaluator_evaluate(self)
        \/ FredEvaluator_init(self)
        \/ FredEvaluator_set_max_confs(self)
        \/ FredEvaluator_evaluate(self)
    /\ UNCHANGED <<thr, level0>>

Spec == Init /\ [][Next]_vars

(***************************************************************************)
(* Two threads calling evaluate on one ROCSEvaluator, with no lock.  The   *)
(* interpreter may switch threads between any two of the steps below: the  *)
(* read and the write of "self.num_evaluations += 1", the cache lookup,    *)
(* the statements of generate_confs, the cache store.                      *)
(***************************************************************************)
\* the instance the threads share
Shared == CHOOSE i \in Inst : TRUE

InitThreads ==
    /\ objs = [i \in Inst |->
                 [class |-> "ROCSEvaluator",
                  ref_mol |-> OEReadMolecule("file"),
                  max_confs |-> DefaultMaxConfs,
                  score_cache |-> <<>>,
                  num_evaluations |-> 0]]
    /\ oe_level \in OELevels
    /\ level0 = oe_level
    /\ calls = [i \in Inst |-> NoCalls]
    /\ first_score = [i \in Inst |-> <<>>]
    /\ ref_df = [i \in Inst |-> <<>>]
    /\ last = Call(Shared, "ROCSEvaluator", "__init__", "file", <<>>, "")
    /\ thr = [t \in Threads |-> [NoThread EXCEPT !.pc = "ready"]]

\* the thread enters evaluate(rd_mol_in)
T_call(t) ==
    /\ thr[t].pc = "ready"
    /\ \E rd_mol_in \in Mols :
         thr' = [thr EXCEPT ![t].mol = rd_mol_in, ![t].pc = "load"]
    /\ calls' = Bump(Shared, {"evaluate"})
    /\ UNCHANGED <<objs, oe_level, first_score, ref_df, last, level0>>

\* self.num_evaluations += 1, first half: the attribute is read
T_load(t) ==
    /\ thr[t].pc = "load"
    /\ thr' = [thr EXCEPT ![t].tmp = objs[Shared].num_evaluations,
                          ![t].pc = "store"]
    /\ UNCHANGED <<objs, oe_level, calls, first_score, ref_df, last, level0>>

\* a store that adds to the value the attribute holds now (an atomic add)
T_store_atomic(t) ==
    /\ thr[t].pc = "store"
    /\ objs' = [objs EXCEPT ![Shared] = Incremented(@)]
    /\ thr' = [thr EXCEPT ![t].pc = "lookup"]
    /\ UNCHANGED <<oe_level, calls, first_score, ref_df, last, level0>>

\* self.num_evaluations += 1, second half: the value read, plus 1, is
\* written back
T_store(t) ==
    /\ thr[t].pc = "store"
    /\ objs' = [objs EXCEPT ![Shared] =
                  Incremented([@ EXCEPT !.num_evaluations = thr[t].tmp])]
    /\ thr' = [thr EXCEPT ![t].pc = "lookup"]
    /\ UNCHANGED <<oe_level, calls, first_score, ref_df, last, level0>>

\* arc_tc = self.score_cache.get(smi) and the test on it
T_lookup(t) ==
    /\ thr[t].pc = "lookup"
    /\ LET smi    == MolToSmiles(thr[t].mol)
           arc_tc == dict_get(objs[Shared].score_cache, smi)
       IN  thr' = [thr EXCEPT ![t].arc_tc = arc_tc,
                              ![t].tc = arc_tc,
                              ![t].pc = IF is_not_None(arc_tc) THEN "return"
                                        ELSE "save_level"]
    /\ UNCHANGED <<objs, oe_level, calls, first_score, ref_df, last, level0>>

\* generate_confs: error_level = oechem.OEThrow.GetLevel()
T_save_level(t) ==
    /\ thr[t].pc = "save_level"
    /\ thr' = [thr EXCEPT ![t].error_level = oe_level,
                          ![t].generated = TRUE,
                          ![t].pc = "set_level"]
    /\ calls' = Bump(Shared, {"generate_confs"})
    /\ UNCHANGED <<objs, oe_level, first_score, ref_df, last, level0>>

\* generate_confs: oechem.OEThrow.SetLevel(oechem.OEErrorLevel_Error)
T_set_level(t) ==
    /\ thr[t].pc = "set_level"
    /\ oe_level' = OEErrorLevel_Error
    /\ thr' = [thr EXCEPT ![t].pc = "omega"]
    /\ UNCHANGED <<objs, calls, first_score, ref_df, last, level0>>

\* generate_confs: status = omega(mol); an error raised here leaves
\* generate_confs and evaluate at once
T_omega(t) ==
    /\ thr[t].pc = "omega"
    /\ \E omega \in OmegaOutcomes :
         IF omega = "raise"
         THEN /\ thr' = [thr EXCEPT ![t].exc = "ToolkitError", ![t].pc = "done"]
              /\ calls' = Bump(Shared, {"raised"})
         ELSE /\ thr' = [thr EXCEPT ![t].status = (omega = "ok"),
                                    ![t].pc = "restore_level"]
              /\ UNCHANGED calls
    /\ UNCHANGED <<objs, oe_level, first_score, ref_df, last, level0>>

\* a restore to a fixed level instead of the level that was saved
T_restore_level_warning(t) ==
    /\ thr[t].pc = "restore_level"
    /\ oe_level' = "Warning"
    /\ thr' = [thr EXCEPT ![t].pc = "score"]
    /\ UNCHANGED <<objs, calls, first_score, ref_df, last, level0>>

\* generate_confs: oechem.OEThrow.SetLevel(error_level)
T_restore_level(t) ==
    /\ thr[t].pc = "restore_level"
    /\ oe_level' = thr[t].error_level
    /\ thr' = [thr EXCEPT ![t].pc = "score"]
    /\ UNCHANGED <<objs, calls, first_score, ref_df, last, level0>>

\* tc = self.overlay(fit_mol) if the conformers were made, -1.0 if not
T_score(t) ==
    /\ thr[t].pc = "score"
    /\ \E score \in OverlayScores :
         LET ov == ROCSEvaluator_overlay(objs[Shared].ref_mol, score)
         IN  IF thr[t].status
             THEN /\ objs' = [objs EXCEPT ![Shared].ref_mol = ov.ref_mol]
                  /\ thr' = [thr EXCEPT ![t].tc = <<ov.tc>>, ![t].pc = "cache_store"]
                  /\ calls' = Bump(Shared, {"overlay"})
             ELSE /\ thr' = [thr EXCEPT ![t].tc = <<ConfFailScore>>,
                                        ![t].pc = "cache_store"]
                  /\ UNCHANGED <<objs, calls>>
    /\ UNCHANGED <<oe_level, first_score, ref_df, last, level0>>

\* self.score_cache[smi] = tc
T_cache_store(t) ==
    /\ thr[t].pc = "cache_store"
    /\ objs' = [objs EXCEPT ![Shared].score_cache =
                  cache_store(@, MolToSmiles(thr[t].mol), thr[t].tc[1])]
    /\ thr' = [thr EXCEPT ![t].stored = TRUE, ![t].pc = "return"]
    /\ UNCHANGED <<oe_level, calls, first_score, ref_df, last, level0>>

\* return tc
T_return(t) ==
    /\ thr[t].pc = "return"
    /\ thr' = [thr EXCEPT ![t].pc = "done"]
    /\ UNCHANGED <<objs, oe_level, calls, first_score, ref_df, last, level0>>

NextThreads ==
    \E t \in Threads :
        \/ T_call(t)
        \/ T_load(t)
        \/ T_store(t)
        \/ T_lookup(t)
        \/ T_save_level(t)
        \/ T_set_level(t)
        \/ T_omega(t)
        \/ T_restore_level(t)
        \/ T_score(t)
        \/ T_cache_store(t)
        \/ T_return(t)

SpecThreads == InitThreads /\ [][NextThreads]_vars

(***************************************************************************)
(* A driver holding two evaluator instances, of the same or of different   *)
(* classes, and calling them in any order from one thread.                 *)
(***************************************************************************)
InitPair ==
    /\ objs = [i \in Pair |-> NoObject]
    /\ oe_level = "Warning"
    /\ level0 = oe_level
    /\ calls = [i \in Pair |-> NoCalls]
    /\ first_score = [i \in Pair |-> <<>>]
    /\ ref_df = [i \in Pair |-> <<>>]
    /\ last = Call("", "", "", "", <<>>, "")
    /\ thr = [t \in Threads |-> NoThread]

\* evaluate calls made so far on the two instances; the tables of this
\* driver are files of at most one row
PairEvals == calls["e1"].evaluate + calls["e2"].evaluate

NextPair ==
    /\ \E self \in Pair :
        \/ MWEvaluator_init(self)
        \/ PairEvals < MaxPairEvals /\ MWEvaluator_evaluate(self)
        \/ FPEvaluator_init(self)
        \/ PairEvals < MaxPairEvals /\ FPEvaluator_evaluate(self)
        \/ ROCSEvaluator_init(self)
        \/ ROCSEvaluator_set_max_confs(self)
        \/ PairEvals < MaxPairEvals /\ ROCSEvaluator_evaluate(self)
        \/ LookupEvaluator_init(self) /\ Len(ref_df'[self]) <= 1
        \/ PairEvals < MaxPairEvals /\ LookupEvaluator_evaluate(self)
        \/ FredEvaluator_init(self)
        \/ FredEvaluator_set_max_confs(self)
        \/ PairEvals < MaxPairEvals /\ FredEvaluator_evaluate(self)
    /\ UNCHANGED <<thr, level0>>

SpecPair == InitPair /\ [][NextPair]_vars

(***************************************************************************)
(* Properties.                                                             *)
(***************************************************************************)
IsInstance(obj) == obj.class \notin {"None", "Raised"}

\* the step is an evaluate call on instance i of class cls
EvaluateStep(i, cls) ==
    /\ objs[i].class = cls
    /\ calls'[i].evaluate = calls[i].evaluate + 1
    /\ last'.op = "evaluate"
    /\ last'.self = i

\* C1: for every evaluator variant the counter is 0 after construction,
\* every evaluate call raises it by exactly 1 on every path (hit, miss,
\* conformer failure, non-success docking code, raising lookup miss), no
\* operation lowers it, and so it always equals the number of evaluate
\* calls started on the instance.
C1_CounterCountsEvaluateCalls ==
    /\ [](\A i \in Inst :
            IsInstance(objs[i]) => objs[i].num_evaluations = calls[i].evaluate)
    /\ [][\A i \in Inst :
            /\ (~ IsInstance(objs[i]) /\ IsInstance(objs'[i]))
                  => objs'[i].num_evaluations = 0
            /\ IsInstance(objs[i])
                  => /\ IsInstance(objs'[i])
                     /\ objs'[i].num_evaluations >= objs[i].num_evaluations
                     /\ (last'.op = "evaluate")
                           => objs'[i].num_evaluations = objs[i].num_evaluations + 1
                     /\ (last'.op # "evaluate")
                           => objs'[i].num_evaluations = objs[i].num_evaluations
         ]_vars

\* a lookup miss has raised on the second call and the counter shows 2
C1_Witness ==
    \E i \in Inst :
        /\ objs[i].class = "LookupEvaluator"
        /\ objs[i].num_evaluations = 2
        /\ last.op = "evaluate"
        /\ last.exc = "KeyError"

\* C2: on one ROCSEvaluator, evaluate of a molecule whose canonical SMILES
\* was already evaluated returns exactly the score returned the first time
\* and invokes neither generate_confs nor overlay, whatever the cached
\* value (0.0 and -1.0 included) and whatever calls came in between.
C2_CacheIdempotence ==
    [][\A i \in Inst :
         (/\ EvaluateStep(i, "ROCSEvaluator")
          /\ MolToSmiles(last'.arg) \in DOMAIN first_score[i])
            => /\ last'.ret = <<first_score[i][MolToSmiles(last'.arg)]>>
               /\ last'.exc = ""
               /\ calls'[i].generate_confs = calls[i].generate_confs
               /\ calls'[i].overlay = calls[i].overlay
      ]_vars

\* a cached 0.0 comes back on the third call, after another molecule was
\* evaluated, without a third conformer generation
C2_Witness ==
    \E i \in Inst :
        /\ objs[i].class = "ROCSEvaluator"
        /\ calls[i].evaluate = 3
        /\ calls[i].generate_confs = 2
        /\ Cardinality(DOMAIN objs[i].score_cache) = 2
        /\ last.op = "evaluate"
        /\ last.confs = ""
        /\ last.ret = <<0>>

\* C3: once score_cache of a ROCSEvaluator holds an entry for a key, no
\* later evaluate or set_max_confs changes its value or removes the key.
C3_CacheStable ==
    [][\A i \in Inst :
         objs[i].class = "ROCSEvaluator"
            => /\ objs'[i].class = "ROCSEvaluator"
               /\ \A k \in DOMAIN objs[i].score_cache :
                    /\ k \in DOMAIN objs'[i].score_cache
                    /\ objs'[i].score_cache[k] = objs[i].score_cache[k]
      ]_vars

\* set_max_confs has just run on an instance whose cache holds two entries
C3_Witness ==
    \E i \in Inst :
        /\ objs[i].class = "ROCSEvaluator"
        /\ Cardinality(DOMAIN objs[i].score_cache) = 2
        /\ last.op = "set_max_confs"
        /\ objs[i].max_confs # DefaultMaxConfs

\* C4: when generate_confs reports failure on a cache miss, evaluate
\* returns exactly -1.0 without raising and without invoking overlay, and
\* has stored -1.0 under the canonical key; a later call with a key that
\* holds -1.0 returns -1.0 without another conformer generation.
C4_FailureSentinel ==
    [][\A i \in Inst :
         EvaluateStep(i, "ROCSEvaluator")
            => LET smi == MolToSmiles(last'.arg)
               IN  /\ (smi \notin DOMAIN objs[i].score_cache /\ last'.confs = "fail")
                         => /\ last'.ret = <<-1>>
                            /\ last'.exc = ""
                            /\ calls'[i].overlay = calls[i].overlay
                            /\ smi \in DOMAIN objs'[i].score_cache
                            /\ objs'[i].score_cache[smi] = -1
                   /\ (smi \in DOMAIN first_score[i] /\ first_score[i][smi] = -1)
                         => /\ last'.ret = <<-1>>
                            /\ last'.exc = ""
                            /\ calls'[i].generate_confs = calls[i].generate_confs
      ]_vars

\* the sentinel stored by a failed generation has been served from the
\* cache: two calls, one conformer generation, no overlay
C4_Witness ==
    \E i \in Inst :
        /\ objs[i].class = "ROCSEvaluator"
        /\ calls[i].evaluate = 2
        /\ calls[i].generate_confs = 1
        /\ calls[i].overlay = 0
        /\ last.op = "evaluate"
        /\ last.confs = ""
        /\ last.ret = <<-1>>

\* C5: FredEvaluator.evaluate returns exactly 1000.0 whenever the docking
\* return code is not Success; when generate_confs fails the docking engine
\* is not invoked, the code is the conformer-generation-error sentinel and
\* the result is 1000.0; only on Success is the result the docked score.
C5_DockingFallback ==
    [][\A i \in Inst :
         (EvaluateStep(i, "FredEvaluator") /\ last'.exc = "")
            => /\ last'.ret_code # OEDockingReturnCode_Success
                    => last'.ret = <<1000>>
               /\ last'.confs = "fail"
                    => /\ calls'[i].dock = calls[i].dock
                       /\ last'.ret_code = OEDockingReturnCode_ConformerGenError
                       /\ last'.ret = <<1000>>
               /\ last'.ret_code = OEDockingReturnCode_Success
                    => /\ calls'[i].dock = calls[i].dock + 1
                       /\ last'.confs = "ok"
                       /\ last'.ret[1] \in DockScores
               /\ last'.ret # <<1000>>
                    => last'.ret_code = OEDockingReturnCode_Success
      ]_vars

\* the docking engine itself reported a non-success code and the fallback
\* came back
C5_Witness ==
    \E i \in Inst :
        /\ objs[i].class = "FredEvaluator"
        /\ last.op = "evaluate"
        /\ last.confs = "ok"
        /\ last.ret_code = "Failed"
        /\ calls[i].dock = 1
        /\ last.ret = <<1000>>


\* C6: for every call to generate_confs, on every exit path (success,
\* failure, or the toolkit call raising), the process-wide logging level
\* after the call equals the level in force immediately before it.
C6_LevelRestored ==
    [][\A i \in Inst :
         calls'[i].generate_confs # calls[i].generate_confs
            => oe_level' = oe_level
      ]_vars

\* C7: constructing ROCSEvaluator, FredEvaluator or LookupEvaluator with a
\* missing or unreadable reference path raises during construction and
\* yields no instance on which evaluate could later be called.
C7_BadPathFailsConstruction ==
    (/\ last.op = "__init__"
     /\ last.cls \in {"ROCSEvaluator", "FredEvaluator", "LookupEvaluator"}
     /\ last.arg \in {"missing", "unreadable"})
        => /\ last.exc # ""
           /\ ~ IsInstance(objs[last.self])

\* C8: FredEvaluator construction with a path that does not exist or is a
\* directory raises FileNotFoundError before read_design_unit is invoked;
\* a successful construction invokes read_design_unit exactly once, and no
\* later evaluate or set_max_confs invokes it again or replaces the engine.
C8_DockingConstructionOrder ==
    [][\A i \in Inst :
         /\ (/\ objs[i] = NoObject
             /\ last'.op = "__init__"
             /\ last'.cls = "FredEvaluator"
             /\ last'.self = i
             /\ last'.arg \in {"missing", "dir"})
               => /\ last'.exc = "FileNotFoundError"
                  /\ calls'[i].read_design_unit = 0
                  /\ ~ IsInstance(objs'[i])
         /\ (objs[i] = NoObject /\ objs'[i].class = "FredEvaluator")
               => calls'[i].read_design_unit = 1
         /\ objs[i].class = "FredEvaluator"
               => /\ objs'[i].class = "FredEvaluator"
                  /\ objs'[i].dock = objs[i].dock
                  /\ calls'[i].read_design_unit = calls[i].read_design_unit
      ]_vars

\* after an evaluate and a set_max_confs the engine loaded at construction
\* is still the only one that was ever loaded
C8_Witness ==
    \E i \in Inst :
        /\ objs[i].class = "FredEvaluator"
        /\ objs[i].num_evaluations >= 1
        /\ objs[i].max_confs # DefaultMaxConfs
        /\ objs[i].dock = "OEDock"
        /\ calls[i].read_design_unit = 1

\* the rows of the loaded table denote pairwise different structures
DistinctStructures(rows) ==
    \A a, b \in 1..Len(rows) :
        MolToSmiles(rows[a][1]) = MolToSmiles(rows[b][1]) => a = b

\* C9: for every row (s, v) of the table loaded at construction,
\* LookupEvaluator.evaluate of the molecule denoted by s returns v, also
\* when s is a valid but non-canonical SMILES of that structure.
C9_RowsRoundTrip ==
    \A i \in Inst :
        (/\ objs[i].class = "LookupEvaluator"
         /\ DistinctStructures(ref_df[i])
         /\ last.op = "evaluate"
         /\ last.self = i)
           => \A r \in 1..Len(ref_df[i]) :
                ref_df[i][r][1] = last.arg
                   => /\ last.exc = ""
                      /\ last.ret = <<ref_df[i][r][2]>>

\* C10: LookupEvaluator.evaluate of a molecule whose canonical SMILES is
\* not a key of the table raises a lookup error instead of returning a
\* default; the table is unchanged, the counter has gone up by 1 and the
\* instance is still there for later calls.
C10_LookupMissRaises ==
    [][\A i \in Inst :
         (/\ EvaluateStep(i, "LookupEvaluator")
          /\ MolToSmiles(last'.arg) \notin DOMAIN objs[i].ref_dict)
            => /\ last'.exc = "KeyError"
               /\ last'.ret = <<>>
               /\ objs'[i].class = "LookupEvaluator"
               /\ objs'[i].ref_dict = objs[i].ref_dict
               /\ objs'[i].num_evaluations = objs[i].num_evaluations + 1
      ]_vars

\* the second call on an instance whose table holds CC only asked for
\* ethanol and raised; the instance and its one-key table are still there
C10_Witness ==
    \E i \in Inst :
        /\ objs[i].class = "LookupEvaluator"
        /\ DOMAIN objs[i].ref_dict = {"CC"}
        /\ objs[i].num_evaluations = 2
        /\ last.op = "evaluate"
        /\ last.exc = "KeyError"
        /\ last.arg = "OCC"

\* C11: ROCSEvaluator.set_max_confs(n) changes only max_confs: score_cache,
\* counter and reference molecule stay as they were.  A later evaluate of
\* a cached key returns the stored score without generating conformers,
\* and the next cache miss hands the budget now in force to generate_confs.
C11_SetMaxConfsFrame ==
    [][\A i \in Inst :
         /\ (/\ objs[i].class = "ROCSEvaluator"
             /\ last'.op = "set_max_confs"
             /\ last'.self = i)
               => /\ objs'[i] = [objs[i] EXCEPT !.max_confs = last'.arg]
                  /\ calls' = calls
                  /\ oe_level' = oe_level
         /\ EvaluateStep(i, "ROCSEvaluator")
               => LET smi == MolToSmiles(last'.arg)
                  IN  IF smi \in DOMAIN objs[i].score_cache
                      THEN /\ last'.ret = <<objs[i].score_cache[smi]>>
                           /\ calls'[i].generate_confs = calls[i].generate_confs
                      ELSE /\ calls'[i].generate_confs = calls[i].generate_confs + 1
                           /\ last'.max_confs = objs[i].max_confs
      ]_vars

\* a second structure has just been generated under the budget 10 set after
\* construction, next to an entry already in the cache
C11_Witness ==
    \E i \in Inst :
        /\ objs[i].class = "ROCSEvaluator"
        /\ objs[i].max_confs = 10
        /\ Cardinality(DOMAIN objs[i].score_cache) = 2
        /\ last.op = "evaluate"
        /\ last.confs = "ok"
        /\ last.max_confs = 10

\* C12: every FredEvaluator.evaluate call, a repeated structure included,
\* runs conformer generation again with the current max_confs and docks
\* again when conformers succeed; the number of generate_confs invocations
\* equals the counter, and the call leaves nothing but the counter behind.
C12_DockingNeverMemoised ==
    /\ [](\A i \in Inst :
            objs[i].class = "FredEvaluator"
               => calls[i].generate_confs = objs[i].num_evaluations)
    /\ [][\A i \in Inst :
            EvaluateStep(i, "FredEvaluator")
               => /\ calls'[i].generate_confs = calls[i].generate_confs + 1
                  /\ last'.max_confs = objs[i].max_confs
                  /\ last'.confs = "ok" => calls'[i].dock = calls[i].dock + 1
                  /\ objs'[i] = [objs[i] EXCEPT !.num_evaluations = @ + 1]
                  /\ DOMAIN objs'[i] = {"class", "dock", "num_evaluations", "max_confs"}
         ]_vars

\* three calls have each generated conformers and docked, the last under
\* a budget changed in between
C12_Witness ==
    \E i \in Inst :
        /\ objs[i].class = "FredEvaluator"
        /\ objs[i].num_evaluations = 3
        /\ calls[i].generate_confs = 3
        /\ calls[i].dock = 3
        /\ last.op = "evaluate"
        /\ last.max_confs = 10

\* C15: the reference molecule held by a ROCSEvaluator has, after any
\* sequence of evaluate and set_max_confs calls, the contents it had right
\* after construction; the overlay step of a cache miss does not alter it.
C15_ReferenceImmutable ==
    [][\A i \in Inst :
         objs[i].class = "ROCSEvaluator"
            => /\ objs'[i].class = "ROCSEvaluator"
               /\ objs'[i].ref_mol = objs[i].ref_mol
      ]_vars

\* C16: on a ROCSEvaluator used from one thread with no toolkit call
\* raising, the cache keys are the canonical SMILES evaluated so far, the
\* number of generate_confs invocations equals the number of cache
\* entries, which is at most the counter, and overlay has run exactly once
\* for each cached key whose value is not the -1.0 of a conformer failure.
C16_CacheAccounting ==
    \A i \in Inst :
        (objs[i].class = "ROCSEvaluator" /\ calls[i].raised = 0)
           => LET cache == objs[i].score_cache
              IN  /\ DOMAIN cache = DOMAIN first_score[i]
                  /\ calls[i].generate_confs = Cardinality(DOMAIN cache)
                  /\ Cardinality(DOMAIN cache) <= objs[i].num_evaluations
                  /\ calls[i].overlay =
                        Cardinality({k \in DOMAIN cache : cache[k] # -1})

\* three calls over two structures, one of which failed to embed: two
\* generations, two entries, one overlay
C16_Witness ==
    \E i \in Inst :
        /\ objs[i].class = "ROCSEvaluator"
        /\ calls[i].raised = 0
        /\ objs[i].num_evaluations = 3
        /\ DOMAIN objs[i].score_cache = {"CC", "CCO"}
        /\ objs[i].score_cache["CC"] = -1
        /\ objs[i].score_cache["CCO"] # -1
        /\ calls[i].generate_confs = 2
        /\ calls[i].overlay = 1

\* every thread has left evaluate
AllDone == \A t \in Threads : thr[t].pc = "done"

\* C13: two threads calling evaluate on one ROCSEvaluator with no lock: the
\* counter increment and the cache check-then-store are not atomic.  The
\* counter ends as the number of distinct values the threads read, never
\* above the number of calls, so two threads that read the same value
\* lose an update; every thread whose lookup missed generates conformers
\* and writes the cache, also when both ask for the same key.
C13_UnsynchronisedUse ==
    /\ objs[Shared].num_evaluations <= calls[Shared].evaluate
    /\ calls[Shared].generate_confs =
          Cardinality({t \in Threads : thr[t].generated})
    /\ \A t \in Threads :
          thr[t].stored => /\ thr[t].arc_tc = <<>>
                           /\ thr[t].generated
                           /\ MolToSmiles(thr[t].mol) \in DOMAIN objs[Shared].score_cache
    /\ AllDone
          => /\ objs[Shared].num_evaluations =
                   Cardinality({thr[t].tmp : t \in Threads})
             /\ \A t \in Threads :
                   (thr[t].arc_tc = <<>> /\ thr[t].exc = "") => thr[t].stored

\* both calls are complete, the counter shows 1, and both threads have
\* generated conformers and written the cache for the same key
C13_Witness ==
    /\ AllDone
    /\ calls[Shared].evaluate = 2
    /\ objs[Shared].num_evaluations = 1
    /\ \A t \in Threads : thr[t].generated /\ thr[t].stored
    /\ \A t, u \in Threads : MolToSmiles(thr[t].mol) = MolToSmiles(thr[u].mol)
    /\ calls[Shared].generate_confs = 2

\* C14: two generate_confs calls running in different threads race on the
\* process-wide level.  When both have returned, the level is the one in
\* force before either started unless one of them saved the suppressed
\* level and put that back, in which case the level is left at Error.
C14_LevelRace ==
    (AllDone /\ \A t \in Threads : thr[t].exc = "")
       => /\ oe_level \in {level0, OEErrorLevel_Error}
          /\ oe_level # level0
                => \E t \in Threads :
                      thr[t].generated /\ thr[t].error_level = OEErrorLevel_Error

\* both calls have returned normally and the level, Warning before either
\* started, is left at Error
C14_Witness ==
    /\ AllDone
    /\ \A t \in Threads : thr[t].exc = "" /\ thr[t].generated
    /\ level0 = "Warning"
    /\ oe_level = OEErrorLevel_Error

\* the instance-owned state of an evaluator: counter, score cache, budget
OwnState(obj) ==
    [f \in DOMAIN obj \cap {"num_evaluations", "score_cache", "max_confs"} |-> obj[f]]

\* C17: counter, score cache and max_confs belong to the instance: for any
\* two evaluator instances, of the same or of different classes, an
\* evaluate or set_max_confs call on one leaves the other's counter, score
\* cache and max_confs unchanged.
C17_InstanceIsolation ==
    [][\A i, j \in Pair :
         (/\ i # j
          /\ last'.op \in {"evaluate", "set_max_confs"}
          /\ last'.self = i)
            => /\ objs'[j] = objs[j]
               /\ OwnState(objs'[j]) = OwnState(objs[j])
               /\ calls'[j] = calls[j]
      ]_vars

\* two ROCSEvaluator instances: one has evaluated twice and had its budget
\* changed, the other still has the state it was constructed with
C17_Witness ==
    /\ objs["e1"].class = "ROCSEvaluator"
    /\ objs["e2"].class = "ROCSEvaluator"
    /\ objs["e1"].num_evaluations = 2
    /\ objs["e1"].max_confs = 10
    /\ objs["e1"].score_cache # <<>>
    /\ objs["e2"].num_evaluations = 0
    /\ objs["e2"].max_confs = DefaultMaxConfs
    /\ objs["e2"].score_cache = <<>>

====
